---- MODULE Spec2Model ----
(***************************************************************************)
(* The book-review REST API: users, books, reviews and favorites stored   *)
(* in four tables, and the viewsets that serve them.  One action per       *)
(* request handler; a request is checked in the framework's order          *)
(* (authentication, view permission, object lookup, object permission,     *)
(* serializer validation) and then performed.                              *)
(***************************************************************************)
EXTENDS Integers, FiniteSets, Sequences, TLC

\* ------------------------------------------------------------------ bounds
\* Number of primary keys each table ever hands out.
MaxUsers == 2
MaxBooks == 2
\* Number of books ever created in the specifications that also hold reviews
\* or favorites.
MaxReviewedBooks == 1
MaxReviews == 2
MaxFavorites == 2
\* Number of create requests handled at the same time.
MaxWorkers == 2
\* Number of comma-separated items in an expand parameter.
MaxExpandItems == 2

\* ------------------------------------------------- accounts/enums.py UserRole
UserRole_ADMIN == 1
UserRole_AUTHOR == 2
UserRole_REVIEWER == 3
UserRole_OTHER == 0

\* books/models.py Review.rating validators
MinRating == 1
MaxRating == 5

\* books/enums.py ReasonChoices: the smallest and the largest choice
ReasonOther == 0
ReasonCollection == 7

UserRoles == {UserRole_ADMIN, UserRole_AUTHOR, UserRole_REVIEWER, UserRole_OTHER}

\* accounts/api/serializers.py: the roles the role ChoiceField accepts
RESTRICTED_ROLE_CHOICES == {UserRole_AUTHOR, UserRole_REVIEWER}

\* rest_framework.permissions.SAFE_METHODS, as imported by permissions.py
SAFE_METHODS == {"GET", "HEAD", "OPTIONS"}

UserIds == 1..MaxUsers
BookIds == 1..MaxBooks
ReviewIds == 1..MaxReviews
FavoriteIds == 1..MaxFavorites

\* The HTTP methods a request may use, and those sent to /users/me/.
Methods == {"GET", "HEAD", "OPTIONS", "POST", "PUT", "PATCH", "DELETE"}
MeMethods == {"GET", "POST", "PUT", "PATCH", "DELETE"}

\* Who sends a request: 0 is a request without credentials, n > 0 a request
\* carrying a token issued for user n (who may have been deleted since).
Requesters == 0..MaxUsers

\* The three model classes a user can be created through.
UserClasses == {"User", "AuthorUser", "ReviewerUser"}

\* Values a request may supply.
Names == {"", "ann"}
Slugs == {"s1", "s2"}
RatingInputs == {MinRating - 1, MinRating, MaxRating, MaxRating + 1}
ReasonInputs == {ReasonOther, ReasonCollection, ReasonCollection + 1}

\* An optional payload field: {} when the field is absent, {v} when it is v.
Opt(S) == {{}} \cup {{v} : v \in S}
Val(o) == CHOOSE v \in o : TRUE
Get(o, dflt) == IF o = {} THEN dflt ELSE Val(o)

Passwords == {"pw1", "pw2"}
UserPayloads ==
    [role : Opt(RESTRICTED_ROLE_CHOICES \cup {UserRole_ADMIN}), first_name : Opt(Names),
     password : Opt(Passwords), is_staff : Opt({TRUE}), is_superuser : Opt({TRUE})]
BookPayloads == [author : Opt(UserIds), slug : Opt(Slugs)]
ReviewPayloads == [book : Opt(BookIds), reviewer : Opt(UserIds), rating : Opt(RatingInputs)]
FavoritePayloads == [user : Opt(UserIds), book : Opt(BookIds), reason : Opt(ReasonInputs)]

\* The names an expand parameter may hold: the relations of the four
\* resources, the wildcard, and a name that is no relation of any resource.
ExpandNames == {"books", "reviews", "favorites", "author", "book", "reviewer", "user",
                "~all", "title"}

\* One item of an expand parameter: a name, or a dotted pair of names.
ExpandPaths == {<<n>> : n \in ExpandNames} \cup {<<n, m>> : n, m \in ExpandNames}

\* The values of ?expand=: comma-separated lists of at most MaxExpandItems items.
ExpandParams == UNION {[1..k -> ExpandPaths] : k \in 0..MaxExpandItems}

VARIABLES
    users,      \* pk -> [role, first_name, password, is_staff, is_superuser, is_active]
                \*                                     (accounts.User rows)
    books,      \* pk -> [author, slug]                (books.Book rows)
    reviews,    \* pk -> [book, reviewer, rating]      (books.Review rows)
    favorites,  \* pk -> [user, book, reason]          (books.Favorites rows)
    next_pk,    \* table -> the next primary key of its auto field
    last        \* the last request and its response

vars == <<users, books, reviews, favorites, next_pk, last>>

Tables == {"user", "book", "review", "favorite"}

\* No request has been answered yet, or the last step was not a request.
NoRequest == [op |-> "none", user |-> 0, target |-> 0, status |-> 0, data |-> {}, body |-> {}]

Response(op, req, target, status, data, body) ==
    [op |-> op, user |-> req, target |-> target, status |-> status, data |-> data, body |-> body]

Insert(table, pk, row) == [x \in DOMAIN table \cup {pk} |-> IF x = pk THEN row ELSE table[x]]
Remove(table, pks) == [x \in DOMAIN table \ pks |-> table[x]]

\* Requests are handled one at a time: a handler runs when no response is
\* pending, and Deliver hands the pending response to the client.
Idle == last.op = "none"

\* The inputs a handler is offered: none while a response is pending.
WhenIdle(S) == IF Idle THEN S ELSE {}

Deliver ==
    /\ ~Idle
    /\ last' = NoRequest
    /\ UNCHANGED <<users, books, reviews, favorites, next_pk>>

Init ==
    /\ users = <<>>
    /\ books = <<>>
    /\ reviews = <<>>
    /\ favorites = <<>>
    /\ next_pk = [t \in Tables |-> 1]
    /\ last = NoRequest

\* ----------------------------------------------------------- accounts/models.py

base_role(cls) ==
    CASE cls = "User" -> UserRole_OTHER
      [] cls = "AuthorUser" -> UserRole_AUTHOR
      [] cls = "ReviewerUser" -> UserRole_REVIEWER

\* User.save: the role the row is stored with.  has_pk is whether the
\* instance already has a primary key, role the role set on the instance.
User_save(cls, has_pk, role) ==
    IF ~has_pk THEN base_role(cls) ELSE role

\* ------------------------------------------------------------ accounts/utils.py

is_author(u) == users[u].role = UserRole_AUTHOR
is_reviewer(u) == users[u].role = UserRole_REVIEWER

\* --------------------------------------------------- accounts/api/permissions.py

\* request.user and request.user.is_authenticated: the token names a stored user.
is_authenticated(req) == req \in DOMAIN users

\* authentication_classes: a token that names no stored user is rejected by
\* the authenticator before any permission is looked at.
credentials_rejected(req) == req # 0 /\ req \notin DOMAIN users

\* Mutant: the author check forgets the role.
IsAuthor_has_permission_any_role(req) == is_authenticated(req)

IsAuthor_has_permission(req) == is_authenticated(req) /\ is_author(req)
IsReviewer_has_permission(req) == is_authenticated(req) /\ is_reviewer(req)

\* Mutant: the view-level check of IsOwner lets every requester through.
IsOwner_has_permission_anyone(req) == TRUE

IsOwner_has_permission(req) == is_authenticated(req)

\* Mutant: the read-only bypass forgets to ask for an authenticated user.
ReadOnly_has_permission_anonymous(req, method) == method \in SAFE_METHODS

ReadOnly_has_permission(req, method) == method \in SAFE_METHODS /\ is_authenticated(req)

\* Mutant: the ownership check lets every requester through.
IsOwner_has_object_permission_always(req, kind, pk) == TRUE

\* Mutant: the branch for Review is missing.
IsOwner_has_object_permission_no_review(req, kind, pk) ==
    CASE kind = "User" -> req = pk
      [] kind = "Book" -> req = books[pk].author
      [] kind = "Favorites" -> req = favorites[pk].user
      [] OTHER -> FALSE

\* IsOwner.has_object_permission: kind is the model class of obj.
IsOwner_has_object_permission(req, kind, pk) ==
    CASE kind = "User" -> req = pk
      [] kind = "Book" -> req = books[pk].author
      [] kind = "Review" -> req = reviews[pk].reviewer
      [] kind = "Favorites" -> req = favorites[pk].user
      [] OTHER -> FALSE

\* The model classes of the objects the check may be handed: the four the
\* code names, and "Model" for an object of any other class.
ObjectKinds == {"User", "Book", "Review", "Favorites", "Model"}

\* The stored objects of a class (every key, for the class the model does
\* not store).
Objects(kind) ==
    CASE kind = "User" -> DOMAIN users
      [] kind = "Book" -> DOMAIN books
      [] kind = "Review" -> DOMAIN reviews
      [] kind = "Favorites" -> DOMAIN favorites
      [] OTHER -> UserIds

\* A call of IsOwner().has_object_permission(request, view, obj) with obj
\* the stored object pk of class kind; the response records the result.
IsOwner_has_object_permission_call(req, kind, pk) ==
    /\ Idle
    /\ pk \in Objects(kind)
    /\ last' = Response("IsOwner.has_object_permission", req, <<kind, pk>>, 0, {},
                        {IsOwner_has_object_permission(req, kind, pk)})
    /\ UNCHANGED <<users, books, reviews, favorites, next_pk>>

\* ------------------------------------------------------ cascading deletes
\* on_delete=CASCADE of Book.author, Review.book, Review.reviewer,
\* Favorites.user and Favorites.book.

BooksOfAuthors(us) == {b \in DOMAIN books : books[b].author \in us}
ReviewsOf(us, bs) == {r \in DOMAIN reviews : reviews[r].reviewer \in us \/ reviews[r].book \in bs}
FavoritesOf(us, bs) == {f \in DOMAIN favorites : favorites[f].user \in us \/ favorites[f].book \in bs}

\* Mutant: the delete of a user stops at the user's own rows and does not
\* follow the books to their reviews and favorites.
DeleteUsers_one_level(us) ==
    /\ users' = Remove(users, us)
    /\ books' = Remove(books, BooksOfAuthors(us))
    /\ reviews' = Remove(reviews, ReviewsOf(us, {}))
    /\ favorites' = Remove(favorites, FavoritesOf(us, {}))

DeleteUsers(us) ==
    LET bs == BooksOfAuthors(us) IN
    /\ users' = Remove(users, us)
    /\ books' = Remove(books, bs)
    /\ reviews' = Remove(reviews, ReviewsOf(us, bs))
    /\ favorites' = Remove(favorites, FavoritesOf(us, bs))

DeleteBooks(bs) ==
    /\ books' = Remove(books, bs)
    /\ reviews' = Remove(reviews, ReviewsOf({}, bs))
    /\ favorites' = Remove(favorites, FavoritesOf({}, bs))
    /\ UNCHANGED users

\* --------------------------------------------------------- accounts/managers.py

\* django.contrib.auth.hashers: the stored form of a raw password, and the
\* test of a raw password against a stored one.
make_password(raw) == "pbkdf2_sha256$" \o raw
check_password(raw, encoded) == encoded = make_password(raw)

\* UserManager._create_user: the instance is built from the arguments, the
\* password is hashed, the instance is saved.
_create_user(cls, role, name, password, is_staff, is_superuser) ==
    /\ next_pk["user"] <= MaxUsers
    /\ users' = Insert(users, next_pk["user"],
                       [role |-> User_save(cls, FALSE, role), first_name |-> name,
                        password |-> make_password(password),
                        is_staff |-> is_staff, is_superuser |-> is_superuser,
                        is_active |-> TRUE])
    /\ next_pk' = [next_pk EXCEPT !["user"] = @ + 1]

\* cls.objects.create_user(role=role, first_name=name, password=password):
\* is_staff and is_superuser default to False.
create_user(cls, role, name, password) ==
    _create_user(cls, role, name, password, FALSE, FALSE)

\* CustomUserManager.create_superuser: whether it raises ValueError.  role
\* is the keyword argument, {} when the caller leaves it out.
CustomUserManager_create_superuser_raises(role) ==
    Get(role, UserRole_ADMIN) # UserRole_ADMIN

\* cls.objects.create_superuser(role=role, password=password), called from
\* the shell or a management command.  The response records the outcome:
\* the key of the stored user, or nothing when ValueError was raised.
CustomUserManager_create_superuser(cls, role, password) ==
    /\ Idle
    /\ IF CustomUserManager_create_superuser_raises(role)
       THEN /\ last' = Response("create_superuser", 0, 0, 0, role, {})
            /\ UNCHANGED <<users, books, reviews, favorites, next_pk>>
       ELSE /\ _create_user(cls, Get(role, UserRole_ADMIN), "", password, TRUE, TRUE)
            /\ last' = Response("create_superuser", 0, 0, 0, role, {next_pk["user"]})
            /\ UNCHANGED <<books, reviews, favorites>>

\* A user created outside the API (tests, shell, admin) through one of the
\* three model classes; first_name keeps its default, the empty string, and
\* the password is the one the fixtures use.
ManagerCreateUser(cls, role) ==
    /\ Idle
    /\ create_user(cls, role, "", "pw1")
    /\ UNCHANGED <<books, reviews, favorites, last>>

\* A stored user saved again with another role set on the instance
\* (the admin site, the shell): User.save leaves the role alone.
SaveStoredUser(u, role) ==
    /\ Idle
    /\ u \in DOMAIN users
    /\ users' = [users EXCEPT ![u].role = User_save("User", TRUE, role)]
    /\ UNCHANGED <<books, reviews, favorites, next_pk, last>>

\* ----------------------------------------------------- accounts/api/serializers.py

\* A required field may be absent only on a partial update.
Supplied(o, partial) == o # {} \/ partial


\* The role ChoiceField: absent is allowed (default REVIEWER), a value must be
\* one of RESTRICTED_ROLE_CHOICES.
\* The password is a required field; the serializer has no field for
\* is_staff and is_superuser (Meta.exclude), so their values are dropped.
UserSerializer_is_valid(p, partial) ==
    /\ p.role \subseteq RESTRICTED_ROLE_CHOICES
    /\ Supplied(p.password, partial)

UserSerializer_validated_role(p) == Get(p.role, UserRole_REVIEWER)

\* UserSerializer.create
UserSerializer_create(p) ==
    create_user("User", UserSerializer_validated_role(p), Get(p.first_name, ""),
                Val(p.password))

\* Mutant: the role is not popped from the validated data.
UserSerializer_update_keeps_role(u, p) ==
    [users[u] EXCEPT !.role = User_save("User", TRUE, Get(p.role, users[u].role)),
                     !.first_name = Get(p.first_name, users[u].first_name),
                     !.password = Get(p.password, users[u].password)]

\* Mutant: Meta.exclude does not list is_staff and is_superuser.
UserSerializer_update_writes_flags(u, p) ==
    [users[u] EXCEPT !.role = User_save("User", TRUE, users[u].role),
                     !.first_name = Get(p.first_name, users[u].first_name),
                     !.password = Get(p.password, users[u].password),
                     !.is_staff = Get(p.is_staff, users[u].is_staff),
                     !.is_superuser = Get(p.is_superuser, users[u].is_superuser)]

\* UserSerializer.update: the row after the update.  The role is popped from
\* the validated data, the other validated fields are set on the instance
\* with setattr (the password as it was supplied), the instance is saved.
UserSerializer_update(u, p) ==
    [users[u] EXCEPT !.role = User_save("User", TRUE, users[u].role),
                     !.first_name = Get(p.first_name, users[u].first_name),
                     !.password = Get(p.password, users[u].password)]

\* --------------------------------------------------------- accounts/api/views.py

\* Mutant: get_permissions has no AllowAny branch for create.
UserViewSet_check_create_closed(action, req, pk) ==
    IF credentials_rejected(req) THEN 401
    ELSE IF ~IsOwner_has_permission(req) THEN 401
    ELSE IF action \in {"create", "list", "me"} THEN 0
    ELSE IF pk \notin DOMAIN users THEN 404
    ELSE IF ~IsOwner_has_object_permission(req, "User", pk) THEN 403
    ELSE 0

\* UserViewSet.get_permissions and the checks of a route, in order:
\* 0 when the request passes them all.
UserViewSet_check(action, req, pk) ==
    IF credentials_rejected(req) THEN 401
    ELSE IF action = "create" THEN 0
    ELSE IF ~IsOwner_has_permission(req) THEN 401
    ELSE IF action \in {"list", "me"} THEN 0
    ELSE IF pk \notin DOMAIN users THEN 404
    ELSE IF ~IsOwner_has_object_permission(req, "User", pk) THEN 403
    ELSE 0

\* GET /users/: the queryset is User.objects.all()
UserViewSet_list(req) ==
    /\ Idle
    /\ LET c == UserViewSet_check("list", req, 0) IN
       /\ last' = IF c # 0 THEN Response("users.list", req, 0, c, {}, {})
                  ELSE Response("users.list", req, 0, 200, {}, DOMAIN users)
       /\ UNCHANGED <<users, books, reviews, favorites, next_pk>>

\* Mutant: the current user is taken from the queryset, not from the request.
UserViewSet_get_current_user_first(req) == {CHOOSE u \in DOMAIN users : TRUE}

\* UserViewSet.get_current_user: request.user
UserViewSet_get_current_user(req) == {req}

\* /users/me/ with any method.  The route maps GET alone to the action; the
\* permissions are checked before the method is dispatched, and retrieve
\* serializes get_current_user() without an object lookup.
UserViewSet_me(req, method) ==
    /\ Idle
    /\ LET c == UserViewSet_check("me", req, 0) IN
       /\ last' = IF c # 0 THEN Response("users.me", req, method, c, {}, {})
                  ELSE IF method # "GET" THEN Response("users.me", req, method, 405, {}, {})
                  ELSE Response("users.me", req, method, 200, {}, UserViewSet_get_current_user(req))
       /\ UNCHANGED <<users, books, reviews, favorites, next_pk>>

\* POST /users/
UserViewSet_create(req, p) ==
    /\ Idle
    /\ LET c == UserViewSet_check("create", req, 0)
           st == IF c # 0 THEN c ELSE IF ~UserSerializer_is_valid(p, FALSE) THEN 400 ELSE 201 IN
       IF st # 201
       THEN /\ last' = Response("users.create", req, 0, st, p, {})
            /\ UNCHANGED <<users, books, reviews, favorites, next_pk>>
       ELSE /\ UserSerializer_create(p)
            /\ last' = Response("users.create", req, next_pk["user"], 201, p, {})
            /\ UNCHANGED <<books, reviews, favorites>>

\* GET /users/{pk}/
UserViewSet_retrieve(req, pk) ==
    /\ Idle
    /\ LET c == UserViewSet_check("retrieve", req, pk) IN
       /\ last' = IF c # 0 THEN Response("users.retrieve", req, pk, c, {}, {})
                  ELSE Response("users.retrieve", req, pk, 200, {}, {pk})
       /\ UNCHANGED <<users, books, reviews, favorites, next_pk>>

\* PUT (partial = FALSE) and PATCH (partial = TRUE) /users/{pk}/
UserViewSet_update(req, pk, p, partial) ==
    /\ Idle
    /\ LET c == UserViewSet_check("update", req, pk)
           op == IF partial THEN "users.partial_update" ELSE "users.update" IN
       IF c # 0
       THEN /\ last' = Response(op, req, pk, c, p, {})
            /\ UNCHANGED <<users, books, reviews, favorites, next_pk>>
       ELSE IF ~UserSerializer_is_valid(p, partial)
       THEN /\ last' = Response(op, req, pk, 400, p, {})
            /\ UNCHANGED <<users, books, reviews, favorites, next_pk>>
       ELSE /\ users' = [users EXCEPT ![pk] = UserSerializer_update(pk, p)]
            /\ last' = Response(op, req, pk, 200, p, {pk})
            /\ UNCHANGED <<books, reviews, favorites, next_pk>>

\* DELETE /users/{pk}/
UserViewSet_destroy(req, pk) ==
    /\ Idle
    /\ LET c == UserViewSet_check("destroy", req, pk) IN
       IF c # 0
       THEN /\ last' = Response("users.destroy", req, pk, c, {}, {})
            /\ UNCHANGED <<users, books, reviews, favorites, next_pk>>
       ELSE /\ DeleteUsers({pk})
            /\ last' = Response("users.destroy", req, pk, 204, {}, {})
            /\ UNCHANGED next_pk

\* ------------------------------------------------------------ books/models.py

\* Mutant: the slug field is not declared unique.
Book_slug_unique_missing(slug, self) == TRUE

\* Book.slug unique=True: no stored book other than `self` has the slug.
Book_slug_unique(slug, self) ==
    \A b \in DOMAIN books \ self : books[b].slug # slug

\* Mutant: the table has no unique_together constraint.
Review_unique_together_missing(book, reviewer, self) == TRUE

\* Review.Meta.unique_together = ("book", "reviewer"), the constraint the
\* database enforces on every insert and update of a review row.
Review_unique_together(book, reviewer, self) ==
    \A r \in DOMAIN reviews \ self :
        ~(reviews[r].book = book /\ reviews[r].reviewer = reviewer)

\* Mutant: the table has no unique_together constraint.
Favorites_unique_together_missing(user, book, self) == TRUE

\* Favorites.Meta.unique_together = ("user", "book")
Favorites_unique_together(user, book, self) ==
    \A f \in DOMAIN favorites \ self :
        ~(favorites[f].user = user /\ favorites[f].book = book)

\* Mutant: the rating has no MaxValueValidator.
Review_rating_valid_no_max(rating) == MinRating <= rating

\* Review.rating validators: MinValueValidator(1), MaxValueValidator(5)
Review_rating_valid(rating) == MinRating <= rating /\ rating <= MaxRating

\* Favorites.reason choices=ReasonChoices.choices
Favorites_reason_valid(reason) == ReasonOther <= reason /\ reason <= ReasonCollection

\* AuthorUserManager.get_queryset and ReviewerUserManager.get_queryset: the
\* rows a foreign key to AuthorUser / ReviewerUser may name.
\* Mutant: the manager of AuthorUser does not filter on the role.
AuthorUserManager_get_queryset_unfiltered == DOMAIN users

AuthorUserManager_get_queryset == {u \in DOMAIN users : users[u].role = UserRole_AUTHOR}
ReviewerUserManager_get_queryset == {u \in DOMAIN users : users[u].role = UserRole_REVIEWER}

\* ------------------------------------------------------- books/api/serializers.py
\* self is {} on create and {pk} on update; a field may be absent only on a
\* partial update.  The serializers exclude no field, so the owning field is
\* a writable, required primary-key field.

BookSerializer_is_valid(p, self, partial) ==
    /\ Supplied(p.author, partial) /\ p.author \subseteq AuthorUserManager_get_queryset
    /\ Supplied(p.slug, partial)
    /\ \A s \in p.slug : Book_slug_unique(s, self)

\* The uniqueness validator of ReviewSerializer: it looks at the values of
\* the payload, completed from the instance on an update.
ReviewSerializer_unique_together_validator(p, self) ==
    \A b \in (IF p.book # {} THEN p.book ELSE {reviews[r].book : r \in self}),
       u \in (IF p.reviewer # {} THEN p.reviewer ELSE {reviews[r].reviewer : r \in self}) :
        ~\E r \in DOMAIN reviews \ self : reviews[r].book = b /\ reviews[r].reviewer = u

ReviewSerializer_is_valid(p, self, partial) ==
    /\ Supplied(p.book, partial) /\ p.book \subseteq DOMAIN books
    /\ Supplied(p.reviewer, partial) /\ p.reviewer \subseteq ReviewerUserManager_get_queryset
    /\ Supplied(p.rating, partial) /\ \A x \in p.rating : Review_rating_valid(x)
    /\ ReviewSerializer_unique_together_validator(p, self)

FavoritesSerializer_unique_together_validator(p, self) ==
    \A u \in (IF p.user # {} THEN p.user ELSE {favorites[f].user : f \in self}),
       b \in (IF p.book # {} THEN p.book ELSE {favorites[f].book : f \in self}) :
        ~\E f \in DOMAIN favorites \ self : favorites[f].user = u /\ favorites[f].book = b

FavoritesSerializer_is_valid(p, self, partial) ==
    /\ Supplied(p.user, partial) /\ p.user \subseteq DOMAIN users
    /\ Supplied(p.book, partial) /\ p.book \subseteq DOMAIN books
    /\ \A x \in p.reason : Favorites_reason_valid(x)
    /\ FavoritesSerializer_unique_together_validator(p, self)

\* ------------------------------------------------------------- books/api/views.py

Method(action) ==
    CASE action \in {"list", "retrieve"} -> "GET"
      [] action = "create" -> "POST"
      [] action = "update" -> "PUT"
      [] action = "partial_update" -> "PATCH"
      [] action = "destroy" -> "DELETE"

UpdateAction(partial) == IF partial THEN "partial_update" ELSE "update"

\* permission_classes = [ReadOnly | IsAuthor]: neither class defines
\* has_object_permission, so the object check is the view check again.
BookViewSet_has_permission(req, method) ==
    ReadOnly_has_permission(req, method) \/ IsAuthor_has_permission(req)

BookViewSet_has_object_permission(req, method, pk) ==
    ReadOnly_has_permission(req, method) \/ IsAuthor_has_permission(req)

\* lookup_field = "slug"
BookViewSet_get_object(slug) == {b \in DOMAIN books : books[b].slug = slug}

\* Mutant: the object is looked up before the view permission is checked.
BookViewSet_check_lookup_first(action, req, slug) ==
    IF action \notin {"list", "create"} /\ BookViewSet_get_object(slug) = {} THEN 404
    ELSE IF ~BookViewSet_has_permission(req, Method(action))
    THEN (IF is_authenticated(req) THEN 403 ELSE 401)
    ELSE IF action \in {"list", "create"} THEN 0
    ELSE IF \E b \in BookViewSet_get_object(slug) :
                ~BookViewSet_has_object_permission(req, Method(action), b) THEN 403
    ELSE 0

BookViewSet_check(action, req, slug) ==
    IF ~BookViewSet_has_permission(req, Method(action))
    THEN (IF is_authenticated(req) THEN 403 ELSE 401)
    ELSE IF action \in {"list", "create"} THEN 0
    ELSE IF BookViewSet_get_object(slug) = {} THEN 404
    ELSE IF \E b \in BookViewSet_get_object(slug) :
                ~BookViewSet_has_object_permission(req, Method(action), b) THEN 403
    ELSE 0

\* BookViewSet.perform_create: serializer.save(author=self.request.user)
BookViewSet_perform_create(req, p) ==
    [author |-> req, slug |-> Val(p.slug)]

\* POST /books/
BookViewSet_create(req, p) ==
    /\ Idle
    /\ LET c == BookViewSet_check("create", req, "")
           st == IF c # 0 THEN c ELSE IF ~BookSerializer_is_valid(p, {}, FALSE) THEN 400 ELSE 201 IN
       IF st # 201
       THEN /\ last' = Response("books.create", req, "", st, p, {})
            /\ UNCHANGED <<users, books, reviews, favorites, next_pk>>
       ELSE /\ next_pk["book"] <= MaxBooks
            /\ books' = Insert(books, next_pk["book"], BookViewSet_perform_create(req, p))
            /\ next_pk' = [next_pk EXCEPT !["book"] = @ + 1]
            /\ last' = Response("books.create", req, "", 201, p, {next_pk["book"]})
            /\ UNCHANGED <<users, reviews, favorites>>

\* GET /books/: the queryset is Book.objects.all()
BookViewSet_list(req) ==
    /\ Idle
    /\ LET c == BookViewSet_check("list", req, "") IN
       /\ last' = IF c # 0 THEN Response("books.list", req, "", c, {}, {})
                  ELSE Response("books.list", req, "", 200, {}, DOMAIN books)
       /\ UNCHANGED <<users, books, reviews, favorites, next_pk>>

\* GET /books/{slug}/
BookViewSet_retrieve(req, slug) ==
    /\ Idle
    /\ LET c == BookViewSet_check("retrieve", req, slug) IN
       /\ last' = IF c # 0 THEN Response("books.retrieve", req, slug, c, {}, {})
                  ELSE Response("books.retrieve", req, slug, 200, {}, BookViewSet_get_object(slug))
       /\ UNCHANGED <<users, books, reviews, favorites, next_pk>>

\* PUT and PATCH /books/{slug}/
BookViewSet_update(req, slug, p, partial) ==
    /\ Idle
    /\ LET c == BookViewSet_check(UpdateAction(partial), req, slug)
           op == "books." \o UpdateAction(partial)
           self == BookViewSet_get_object(slug)
           st == IF c # 0 THEN c ELSE IF ~BookSerializer_is_valid(p, self, partial) THEN 400 ELSE 200 IN
       IF st # 200
       THEN /\ last' = Response(op, req, slug, st, p, {})
            /\ UNCHANGED <<users, books, reviews, favorites, next_pk>>
       ELSE /\ books' = [b \in DOMAIN books |->
                           IF b \in self
                           THEN [author |-> Get(p.author, books[b].author),
                                 slug |-> Get(p.slug, books[b].slug)]
                           ELSE books[b]]
            /\ last' = Response(op, req, slug, 200, p, self)
            /\ UNCHANGED <<users, reviews, favorites, next_pk>>

\* DELETE /books/{slug}/
BookViewSet_destroy(req, slug) ==
    /\ Idle
    /\ LET c == BookViewSet_check("destroy", req, slug) IN
       IF c # 0
       THEN /\ last' = Response("books.destroy", req, slug, c, {}, {})
            /\ UNCHANGED <<users, books, reviews, favorites, next_pk>>
       ELSE /\ DeleteBooks(BookViewSet_get_object(slug))
            /\ last' = Response("books.destroy", req, slug, 204, {}, {})
            /\ UNCHANGED next_pk

\* permission_classes = [ReadOnly | IsReviewer]
ReviewViewSet_has_permission(req, method) ==
    ReadOnly_has_permission(req, method) \/ IsReviewer_has_permission(req)

ReviewViewSet_has_object_permission(req, method, pk) ==
    ReadOnly_has_permission(req, method) \/ IsReviewer_has_permission(req)

ReviewViewSet_check(action, req, pk) ==
    IF ~ReviewViewSet_has_permission(req, Method(action))
    THEN (IF is_authenticated(req) THEN 403 ELSE 401)
    ELSE IF action \in {"list", "create"} THEN 0
    ELSE IF pk \notin DOMAIN reviews THEN 404
    ELSE IF ~ReviewViewSet_has_object_permission(req, Method(action), pk) THEN 403
    ELSE 0

\* ReviewViewSet.perform_create: serializer.save(reviewer=self.request.user)
ReviewViewSet_perform_create(req, p) ==
    [book |-> Val(p.book), reviewer |-> req, rating |-> Val(p.rating)]

\* POST /reviews/.  The insert of a row that breaks unique_together raises
\* IntegrityError, which no handler catches: the response is a 500.
ReviewViewSet_create(req, p) ==
    /\ Idle
    /\ LET c == ReviewViewSet_check("create", req, 0)
           row == ReviewViewSet_perform_create(req, p)
           st == IF c # 0 THEN c
                 ELSE IF ~ReviewSerializer_is_valid(p, {}, FALSE) THEN 400
                 ELSE IF ~Review_unique_together(row.book, row.reviewer, {}) THEN 500
                 ELSE 201 IN
       IF st # 201
       THEN /\ last' = Response("reviews.create", req, 0, st, p, {})
            /\ UNCHANGED <<users, books, reviews, favorites, next_pk>>
       ELSE /\ next_pk["review"] <= MaxReviews
            /\ reviews' = Insert(reviews, next_pk["review"], row)
            /\ next_pk' = [next_pk EXCEPT !["review"] = @ + 1]
            /\ last' = Response("reviews.create", req, 0, 201, p, {next_pk["review"]})
            /\ UNCHANGED <<users, books, favorites>>

\* GET /reviews/: the queryset is Review.objects.all()
ReviewViewSet_list(req) ==
    /\ Idle
    /\ LET c == ReviewViewSet_check("list", req, 0) IN
       /\ last' = IF c # 0 THEN Response("reviews.list", req, 0, c, {}, {})
                  ELSE Response("reviews.list", req, 0, 200, {}, DOMAIN reviews)
       /\ UNCHANGED <<users, books, reviews, favorites, next_pk>>

\* GET /reviews/{pk}/
ReviewViewSet_retrieve(req, pk) ==
    /\ Idle
    /\ LET c == ReviewViewSet_check("retrieve", req, pk) IN
       /\ last' = IF c # 0 THEN Response("reviews.retrieve", req, pk, c, {}, {})
                  ELSE Response("reviews.retrieve", req, pk, 200, {}, {pk})
       /\ UNCHANGED <<users, books, reviews, favorites, next_pk>>

\* PUT and PATCH /reviews/{pk}/
ReviewViewSet_update(req, pk, p, partial) ==
    /\ Idle
    /\ LET c == ReviewViewSet_check(UpdateAction(partial), req, pk)
           op == "reviews." \o UpdateAction(partial)
           row == [book |-> Get(p.book, reviews[pk].book),
                   reviewer |-> Get(p.reviewer, reviews[pk].reviewer),
                   rating |-> Get(p.rating, reviews[pk].rating)]
           st == IF c # 0 THEN c
                 ELSE IF ~ReviewSerializer_is_valid(p, {pk}, partial) THEN 400
                 ELSE IF ~Review_unique_together(row.book, row.reviewer, {pk}) THEN 500
                 ELSE 200 IN
       IF st # 200
       THEN /\ last' = Response(op, req, pk, st, p, {})
            /\ UNCHANGED <<users, books, reviews, favorites, next_pk>>
       ELSE /\ reviews' = [reviews EXCEPT ![pk] = row]
            /\ last' = Response(op, req, pk, 200, p, {pk})
            /\ UNCHANGED <<users, books, favorites, next_pk>>

\* DELETE /reviews/{pk}/
ReviewViewSet_destroy(req, pk) ==
    /\ Idle
    /\ LET c == ReviewViewSet_check("destroy", req, pk) IN
       IF c # 0
       THEN /\ last' = Response("reviews.destroy", req, pk, c, {}, {})
            /\ UNCHANGED <<users, books, reviews, favorites, next_pk>>
       ELSE /\ reviews' = Remove(reviews, {pk})
            /\ last' = Response("reviews.destroy", req, pk, 204, {}, {})
            /\ UNCHANGED <<users, books, favorites, next_pk>>

\* Mutant: the queryset is not filtered by the requester.
FavoritesViewSet_get_queryset_unfiltered(req) == DOMAIN favorites

\* FavoritesViewSet.get_queryset: queryset.filter(user=self.request.user)
FavoritesViewSet_get_queryset(req) ==
    {f \in DOMAIN favorites : favorites[f].user = req}

\* permission_classes = [IsOwner]
FavoritesViewSet_check(action, req, pk) ==
    IF ~IsOwner_has_permission(req) THEN 401
    ELSE IF action \in {"list", "create"} THEN 0
    ELSE IF pk \notin FavoritesViewSet_get_queryset(req) THEN 404
    ELSE IF ~IsOwner_has_object_permission(req, "Favorites", pk) THEN 403
    ELSE 0

\* Mutant: the favorite is saved with the user of the payload.
FavoritesViewSet_perform_create_payload_user(req, p) ==
    [user |-> Val(p.user), book |-> Val(p.book), reason |-> Get(p.reason, ReasonOther)]

\* FavoritesViewSet.perform_create: serializer.save(user=self.request.user)
FavoritesViewSet_perform_create(req, p) ==
    [user |-> req, book |-> Val(p.book), reason |-> Get(p.reason, ReasonOther)]

\* GET /favorites/
FavoritesViewSet_list(req) ==
    /\ Idle
    /\ LET c == FavoritesViewSet_check("list", req, 0) IN
       /\ last' = IF c # 0 THEN Response("favorites.list", req, 0, c, {}, {})
                  ELSE Response("favorites.list", req, 0, 200, {}, FavoritesViewSet_get_queryset(req))
       /\ UNCHANGED <<users, books, reviews, favorites, next_pk>>

\* GET /favorites/{pk}/
FavoritesViewSet_retrieve(req, pk) ==
    /\ Idle
    /\ LET c == FavoritesViewSet_check("retrieve", req, pk) IN
       /\ last' = IF c # 0 THEN Response("favorites.retrieve", req, pk, c, {}, {})
                  ELSE Response("favorites.retrieve", req, pk, 200, {}, {pk})
       /\ UNCHANGED <<users, books, reviews, favorites, next_pk>>

\* POST /favorites/
FavoritesViewSet_create(req, p) ==
    /\ Idle
    /\ LET c == FavoritesViewSet_check("create", req, 0)
           st == IF c # 0 THEN c
                 ELSE IF ~FavoritesSerializer_is_valid(p, {}, FALSE) THEN 400
                 ELSE IF ~Favorites_unique_together(req, Val(p.book), {}) THEN 500
                 ELSE 201 IN
       IF st # 201
       THEN /\ last' = Response("favorites.create", req, 0, st, p, {})
            /\ UNCHANGED <<users, books, reviews, favorites, next_pk>>
       ELSE /\ next_pk["favorite"] <= MaxFavorites
            /\ favorites' = Insert(favorites, next_pk["favorite"], FavoritesViewSet_perform_create(req, p))
            /\ next_pk' = [next_pk EXCEPT !["favorite"] = @ + 1]
            /\ last' = Response("favorites.create", req, 0, 201, p, {next_pk["favorite"]})
            /\ UNCHANGED <<users, books, reviews>>

\* PUT and PATCH /favorites/{pk}/
FavoritesViewSet_update(req, pk, p, partial) ==
    /\ Idle
    /\ LET c == FavoritesViewSet_check(UpdateAction(partial), req, pk)
           op == "favorites." \o UpdateAction(partial)
           row == [user |-> Get(p.user, favorites[pk].user),
                   book |-> Get(p.book, favorites[pk].book),
                   reason |-> Get(p.reason, favorites[pk].reason)]
           st == IF c # 0 THEN c
                 ELSE IF ~FavoritesSerializer_is_valid(p, {pk}, partial) THEN 400
                 ELSE IF ~Favorites_unique_together(row.user, row.book, {pk}) THEN 500
                 ELSE 200 IN
       IF st # 200
       THEN /\ last' = Response(op, req, pk, st, p, {})
            /\ UNCHANGED <<users, books, reviews, favorites, next_pk>>
       ELSE /\ favorites' = [favorites EXCEPT ![pk] = row]
            /\ last' = Response(op, req, pk, 200, p, {pk})
            /\ UNCHANGED <<users, books, reviews, next_pk>>

\* DELETE /favorites/{pk}/
FavoritesViewSet_destroy(req, pk) ==
    /\ Idle
    /\ LET c == FavoritesViewSet_check("destroy", req, pk) IN
       IF c # 0
       THEN /\ last' = Response("favorites.destroy", req, pk, c, {}, {})
            /\ UNCHANGED <<users, books, reviews, favorites, next_pk>>
       ELSE /\ favorites' = Remove(favorites, {pk})
            /\ last' = Response("favorites.destroy", req, pk, 204, {}, {})
            /\ UNCHANGED <<users, books, reviews, next_pk>>

\* ------------------------------------------- rest_flex_fields.utils.is_expanded
\* The expand parameter is split on "," and each item on "."; all the names go
\* into one list, and a field is expanded when the list holds it or "~all".

RECURSIVE expand_fields(_)
expand_fields(expand) ==
    IF expand = <<>> THEN <<>>
    ELSE Head(expand) \o expand_fields(Tail(expand))

is_expanded(expand, field) ==
    LET fields == expand_fields(expand) IN
    \/ \E i \in DOMAIN fields : fields[i] = "~all"
    \/ \E i \in DOMAIN fields : fields[i] = field

UserViewSet_permitted_expands == {"books", "reviews", "favorites"}
BookViewSet_permitted_expands == {"author", "reviews"}
ReviewViewSet_permitted_expands == {"book", "reviewer"}
FavoritesViewSet_permitted_expands == {"book", "user"}

\* The get_queryset of each viewset: the relations it joins (select_related)
\* and prefetches (prefetch_related) for a request with this expand parameter.

UserViewSet_get_queryset(expand) ==
    [select_related |-> {},
     prefetch_related |->
         (IF is_expanded(expand, "books") THEN {"books"} ELSE {})
         \cup (IF is_expanded(expand, "reviews") THEN {"reviews"} ELSE {})
         \cup (IF is_expanded(expand, "favorites") THEN {"favorites"} ELSE {})]

\* Mutant: the second test asks for "review", a name no request can match.
BookViewSet_get_queryset_misspelt(expand) ==
    [select_related |-> (IF is_expanded(expand, "author") THEN {"author"} ELSE {}),
     prefetch_related |-> (IF is_expanded(expand, "review") THEN {"reviews"} ELSE {})]

BookViewSet_get_queryset(expand) ==
    [select_related |-> (IF is_expanded(expand, "author") THEN {"author"} ELSE {}),
     prefetch_related |-> (IF is_expanded(expand, "reviews") THEN {"reviews"} ELSE {})]

ReviewViewSet_get_queryset(expand) ==
    [select_related |->
         (IF is_expanded(expand, "book") THEN {"book"} ELSE {})
         \cup (IF is_expanded(expand, "reviewer") THEN {"reviewer"} ELSE {}),
     prefetch_related |-> {}]

\* FavoritesViewSet.get_queryset, the part after the filter on the user.
FavoritesViewSet_get_queryset_related(expand) ==
    [select_related |->
         (IF is_expanded(expand, "book") THEN {"book"} ELSE {})
         \cup (IF is_expanded(expand, "user") THEN {"user"} ELSE {}),
     prefetch_related |-> {}]

\* A request to a viewset with an expand parameter: the response records the
\* relations its queryset loads.
Loaded(q) == q.select_related \cup q.prefetch_related

UserViewSet_get_queryset_call(expand) ==
    /\ Idle
    /\ last' = Response("users.get_queryset", 0, 0, 0, expand, Loaded(UserViewSet_get_queryset(expand)))
    /\ UNCHANGED <<users, books, reviews, favorites, next_pk>>

BookViewSet_get_queryset_call(expand) ==
    /\ Idle
    /\ last' = Response("books.get_queryset", 0, 0, 0, expand, Loaded(BookViewSet_get_queryset(expand)))
    /\ UNCHANGED <<users, books, reviews, favorites, next_pk>>

ReviewViewSet_get_queryset_call(expand) ==
    /\ Idle
    /\ last' = Response("reviews.get_queryset", 0, 0, 0, expand, Loaded(ReviewViewSet_get_queryset(expand)))
    /\ UNCHANGED <<users, books, reviews, favorites, next_pk>>

FavoritesViewSet_get_queryset_call(expand) ==
    /\ Idle
    /\ last' = Response("favorites.get_queryset", 0, 0, 0, expand,
                        Loaded(FavoritesViewSet_get_queryset_related(expand)))
    /\ UNCHANGED <<users, books, reviews, favorites, next_pk>>

\* ------------------------------------------------- concurrent creates
\* Several workers handle a create each.  Every worker has authenticated
\* its request, checked the permissions and run the serializer's validation
\* against the same tables; the inserts then happen one after the other, in
\* any order, each under the constraints of its table.  The pending response
\* holds, for every worker, its request and its status (0 until it answers).

Workers == 1..MaxWorkers

ReviewViewSet_create_is_valid(req, p) ==
    /\ ReviewViewSet_check("create", req, 0) = 0
    /\ ReviewSerializer_is_valid(p, {}, FALSE)

FavoritesViewSet_create_is_valid(req, p) ==
    /\ FavoritesViewSet_check("create", req, 0) = 0
    /\ FavoritesSerializer_is_valid(p, {}, FALSE)

ReviewViewSet_create_concurrent(rs) ==
    /\ Idle
    /\ \A w \in Workers : ReviewViewSet_create_is_valid(rs[w].user, rs[w].data)
    /\ last' = Response("reviews.create.concurrent", 0, 0, 0,
                        [w \in Workers |-> [user |-> rs[w].user, data |-> rs[w].data, status |-> 0]],
                        {})
    /\ UNCHANGED <<users, books, reviews, favorites, next_pk>>

FavoritesViewSet_create_concurrent(rs) ==
    /\ Idle
    /\ \A w \in Workers : FavoritesViewSet_create_is_valid(rs[w].user, rs[w].data)
    /\ last' = Response("favorites.create.concurrent", 0, 0, 0,
                        [w \in Workers |-> [user |-> rs[w].user, data |-> rs[w].data, status |-> 0]],
                        {})
    /\ UNCHANGED <<users, books, reviews, favorites, next_pk>>

\* perform_create of worker w: the insert, or the IntegrityError of the
\* table's unique_together, which no handler catches (a 500).
ReviewViewSet_perform_create_of(w) ==
    /\ last.op = "reviews.create.concurrent"
    /\ last.data[w].status = 0
    /\ LET row == ReviewViewSet_perform_create(last.data[w].user, last.data[w].data) IN
       IF ~Review_unique_together(row.book, row.reviewer, {})
       THEN /\ last' = [last EXCEPT !.data[w].status = 500]
            /\ UNCHANGED <<users, books, reviews, favorites, next_pk>>
       ELSE /\ next_pk["review"] <= MaxReviews
            /\ reviews' = Insert(reviews, next_pk["review"], row)
            /\ next_pk' = [next_pk EXCEPT !["review"] = @ + 1]
            /\ last' = [last EXCEPT !.data[w].status = 201]
            /\ UNCHANGED <<users, books, favorites>>

FavoritesViewSet_perform_create_of(w) ==
    /\ last.op = "favorites.create.concurrent"
    /\ last.data[w].status = 0
    /\ LET row == FavoritesViewSet_perform_create(last.data[w].user, last.data[w].data) IN
       IF ~Favorites_unique_together(row.user, row.book, {})
       THEN /\ last' = [last EXCEPT !.data[w].status = 500]
            /\ UNCHANGED <<users, books, reviews, favorites, next_pk>>
       ELSE /\ next_pk["favorite"] <= MaxFavorites
            /\ favorites' = Insert(favorites, next_pk["favorite"], row)
            /\ next_pk' = [next_pk EXCEPT !["favorite"] = @ + 1]
            /\ last' = [last EXCEPT !.data[w].status = 201]
            /\ UNCHANGED <<users, books, reviews>>

ConcurrentOps == {"reviews.create.concurrent", "favorites.create.concurrent"}

\* Every worker has answered.
AllAnswered == last.op \in ConcurrentOps => \A w \in Workers : last.data[w].status # 0

\* The responses are delivered once every worker has answered.
DeliverAnswered == AllAnswered /\ Deliver

\* -------------------------------------------------- expandable_fields
\* The serializer classes the two serializers modules define, by dotted path.
SerializerClasses ==
    {"accounts.api.serializers.UserSerializer", "books.api.serializers.BookSerializer",
     "books.api.serializers.ReviewSerializer", "books.api.serializers.FavoritesSerializer"}

\* Meta.expandable_fields of the four serializers: field -> dotted path.
UserSerializer_expandable_fields ==
    [books |-> "books.api.serializers.BooksSerializer",
     reviews |-> "books.api.serializers.ReviewSerializer",
     favorites |-> "books.api.serializers.FavoritesSerializer"]

BookSerializer_expandable_fields ==
    [author |-> "accounts.api.serializers.UserSerializer",
     reviews |-> "books.api.serializers.ReviewSerializer"]

ReviewSerializer_expandable_fields ==
    [book |-> "books.api.serializers.BookSerializer",
     reviewer |-> "accounts.api.serializers.UserSerializer"]

FavoritesSerializer_expandable_fields ==
    [book |-> "books.api.serializers.BookSerializer",
     user |-> "accounts.api.serializers.UserSerializer"]

\* The fields a serializer expands for a request: the items of the expand
\* parameter that are on the view's whitelist, or the whole whitelist when
\* an item is the wildcard.
permitted_expands_from_query_param(expand, permitted) ==
    IF \E i \in DOMAIN expand : expand[i] = <<"~all">> THEN permitted
    ELSE {f \in permitted : \E i \in DOMAIN expand : expand[i] = <<f>>}

\* Whether an expanded field names a serializer class that can be imported;
\* the serializer raises an exception when it cannot.
expansion_raises(expandable_fields, fields) ==
    \E f \in fields \cap DOMAIN expandable_fields : expandable_fields[f] \notin SerializerClasses

\* GET /users/{pk}/?expand=...: the checks of retrieve, then the serializer
\* builds a nested serializer for every expanded field.
UserViewSet_retrieve_expand(req, pk, expand) ==
    /\ Idle
    /\ LET c == UserViewSet_check("retrieve", req, pk)
           fields == permitted_expands_from_query_param(expand, UserViewSet_permitted_expands) IN
       /\ last' = IF c # 0 THEN Response("users.retrieve_expand", req, pk, c, expand, {})
                  ELSE IF expansion_raises(UserSerializer_expandable_fields, fields)
                  THEN Response("users.retrieve_expand", req, pk, 500, expand, {})
                  ELSE Response("users.retrieve_expand", req, pk, 200, expand, {pk})
       /\ UNCHANGED <<users, books, reviews, favorites, next_pk>>

\* ------------------------------------------------------------ specifications

NextExpand ==
    \/ Deliver
    \/ \E expand \in WhenIdle(ExpandParams) : UserViewSet_get_queryset_call(expand)
    \/ \E expand \in WhenIdle(ExpandParams) : BookViewSet_get_queryset_call(expand)
    \/ \E expand \in WhenIdle(ExpandParams) : ReviewViewSet_get_queryset_call(expand)
    \/ \E expand \in WhenIdle(ExpandParams) : FavoritesViewSet_get_queryset_call(expand)

\* The querysets of the four viewsets under every expand parameter; the
\* relations loaded depend on the parameter alone, not on the stored rows.
SpecExpand == Init /\ [][NextExpand]_vars

UserSetup ==
    \/ \E cls \in WhenIdle(UserClasses), r \in UserRoles : ManagerCreateUser(cls, r)
    \/ \E u \in WhenIdle(UserIds), r \in UserRoles : SaveStoredUser(u, r)

UserDestroyRequests ==
    \E req \in WhenIdle(Requesters), pk \in UserIds : UserViewSet_destroy(req, pk)

UserRequests ==
    \/ \E req \in WhenIdle(Requesters) : UserViewSet_list(req)
    \/ \E req \in WhenIdle(Requesters), method \in MeMethods : UserViewSet_me(req, method)
    \/ \E req \in WhenIdle(Requesters), p \in UserPayloads : UserViewSet_create(req, p)
    \/ \E req \in WhenIdle(Requesters), pk \in UserIds : UserViewSet_retrieve(req, pk)
    \/ \E req \in WhenIdle(Requesters), pk \in UserIds, p \in UserPayloads, partial \in BOOLEAN :
           UserViewSet_update(req, pk, p, partial)
    \/ UserDestroyRequests

BookRequests ==
    \/ \E req \in WhenIdle(Requesters) : BookViewSet_list(req)
    \/ \E req \in WhenIdle(Requesters), slug \in Slugs : BookViewSet_retrieve(req, slug)
    \/ \E req \in WhenIdle(Requesters), p \in BookPayloads : BookViewSet_create(req, p)
    \/ \E req \in WhenIdle(Requesters), slug \in Slugs, p \in BookPayloads, partial \in BOOLEAN :
           BookViewSet_update(req, slug, p, partial)
    \/ \E req \in WhenIdle(Requesters), slug \in Slugs : BookViewSet_destroy(req, slug)

ReviewRequests ==
    \/ \E req \in WhenIdle(Requesters) : ReviewViewSet_list(req)
    \/ \E req \in WhenIdle(Requesters), pk \in ReviewIds : ReviewViewSet_retrieve(req, pk)
    \/ \E req \in WhenIdle(Requesters), p \in ReviewPayloads : ReviewViewSet_create(req, p)
    \/ \E req \in WhenIdle(Requesters), pk \in ReviewIds, p \in ReviewPayloads, partial \in BOOLEAN :
           ReviewViewSet_update(req, pk, p, partial)
    \/ \E req \in WhenIdle(Requesters), pk \in ReviewIds : ReviewViewSet_destroy(req, pk)

FavoriteRequests ==
    \/ \E req \in WhenIdle(Requesters) : FavoritesViewSet_list(req)
    \/ \E req \in WhenIdle(Requesters), pk \in FavoriteIds : FavoritesViewSet_retrieve(req, pk)
    \/ \E req \in WhenIdle(Requesters), p \in FavoritePayloads : FavoritesViewSet_create(req, p)
    \/ \E req \in WhenIdle(Requesters), pk \in FavoriteIds, p \in FavoritePayloads, partial \in BOOLEAN :
           FavoritesViewSet_update(req, pk, p, partial)
    \/ \E req \in WhenIdle(Requesters), pk \in FavoriteIds : FavoritesViewSet_destroy(req, pk)

NextUsers == Deliver \/ UserSetup \/ UserRequests

\* The users resource alone: no request to another resource reads or writes
\* the users table.
SpecUsers == Init /\ [][NextUsers]_vars

NextBooks == Deliver \/ UserSetup \/ UserDestroyRequests \/ BookRequests

\* The requests to books while at most MaxReviewedBooks have been created.
FewBookRequests == BookRequests /\ next_pk'["book"] <= MaxReviewedBooks + 1

NextReviews ==
    Deliver \/ UserSetup \/ UserDestroyRequests \/ FewBookRequests \/ ReviewRequests

NextFavorites ==
    Deliver \/ UserSetup \/ UserDestroyRequests \/ FewBookRequests \/ FavoriteRequests

Next ==
    Deliver \/ UserSetup \/ UserRequests \/ FewBookRequests \/ ReviewRequests \/ FavoriteRequests

\* Users and books: the requests to reviews and favorites read and write
\* neither table.
SpecBooks == Init /\ [][NextBooks]_vars

\* Users, books and reviews: no request to favorites touches them.
SpecReviews == Init /\ [][NextReviews]_vars

\* Users, books and favorites: no request to reviews touches them.
SpecFavorites == Init /\ [][NextFavorites]_vars

\* Every request to every resource.
Spec == Init /\ [][Next]_vars

NextApi ==
    \/ Deliver
    \/ \E cls \in WhenIdle(UserClasses), r \in UserRoles : ManagerCreateUser(cls, r)
    \/ UserRequests
    \/ FewBookRequests
    \/ ReviewRequests

\* Users created through the model classes, and from then on nothing but
\* requests to the API: no stored user is saved again outside it.
SpecApi == Init /\ [][NextApi]_vars

\* Requests that carry the credentials of a stored user and fill the tables:
\* a create with one valid payload that names the requester as owner, and a
\* user deleting itself (whose token then names no stored user).
AuthenticatedSetup ==
    \/ \E req \in WhenIdle(UserIds) :
           /\ req \in DOMAIN users
           /\ BookViewSet_create(req, [author |-> {req}, slug |-> {"s1"}])
    \/ \E req \in WhenIdle(UserIds), b \in BookIds :
           /\ req \in DOMAIN users
           /\ ReviewViewSet_create(req, [book |-> {b}, reviewer |-> {req}, rating |-> {MinRating}])
    \/ \E req \in WhenIdle(UserIds), b \in BookIds :
           /\ req \in DOMAIN users
           /\ FavoritesViewSet_create(req, [user |-> {req}, book |-> {b}, reason |-> {}])
    \/ \E req \in WhenIdle(UserIds) : req \in DOMAIN users /\ UserViewSet_destroy(req, req)

\* Every request to every route, sent without credentials (0) or with a
\* token that names no stored user.
UnauthenticatedRequests ==
    \E req \in WhenIdle(Requesters \ DOMAIN users) :
        \/ UserViewSet_list(req)
        \/ \E method \in MeMethods : UserViewSet_me(req, method)
        \/ \E p \in UserPayloads : UserViewSet_create(req, p)
        \/ \E pk \in UserIds : UserViewSet_retrieve(req, pk)
        \/ \E pk \in UserIds, p \in UserPayloads, partial \in BOOLEAN :
               UserViewSet_update(req, pk, p, partial)
        \/ \E pk \in UserIds : UserViewSet_destroy(req, pk)
        \/ BookViewSet_list(req)
        \/ \E slug \in Slugs : BookViewSet_retrieve(req, slug)
        \/ \E p \in BookPayloads : BookViewSet_create(req, p)
        \/ \E slug \in Slugs, p \in BookPayloads, partial \in BOOLEAN :
               BookViewSet_update(req, slug, p, partial)
        \/ \E slug \in Slugs : BookViewSet_destroy(req, slug)
        \/ ReviewViewSet_list(req)
        \/ \E pk \in ReviewIds : ReviewViewSet_retrieve(req, pk)
        \/ \E p \in ReviewPayloads : ReviewViewSet_create(req, p)
        \/ \E pk \in ReviewIds, p \in ReviewPayloads, partial \in BOOLEAN :
               ReviewViewSet_update(req, pk, p, partial)
        \/ \E pk \in ReviewIds : ReviewViewSet_destroy(req, pk)
        \/ FavoritesViewSet_list(req)
        \/ \E pk \in FavoriteIds : FavoritesViewSet_retrieve(req, pk)
        \/ \E p \in FavoritePayloads : FavoritesViewSet_create(req, p)
        \/ \E pk \in FavoriteIds, p \in FavoritePayloads, partial \in BOOLEAN :
               FavoritesViewSet_update(req, pk, p, partial)
        \/ \E pk \in FavoriteIds : FavoritesViewSet_destroy(req, pk)

NextUnauthenticated ==
    \/ Deliver
    \/ \E cls \in WhenIdle(UserClasses) : ManagerCreateUser(cls, base_role(cls))
    \/ AuthenticatedSetup
    \/ UnauthenticatedRequests

\* All four resources under requests without valid credentials: the tables
\* are filled by the setup requests, and every request to every route is
\* then sent by a requester who is not a stored user.
SpecUnauthenticated == Init /\ [][NextUnauthenticated]_vars

NextOwner ==
    \/ Deliver
    \/ \E cls \in WhenIdle(UserClasses) : ManagerCreateUser(cls, base_role(cls))
    \/ AuthenticatedSetup
    \/ \E req \in WhenIdle(Requesters), kind \in ObjectKinds,
          pk \in UserIds \cup BookIds \cup ReviewIds \cup FavoriteIds :
           IsOwner_has_object_permission_call(req, kind, pk)

\* The ownership check applied to every stored object of every class on
\* behalf of every requester, over tables filled by the setup requests.
SpecOwner == Init /\ [][NextOwner]_vars

NextSuperuser ==
    \/ Deliver
    \/ \E cls \in WhenIdle(UserClasses), role \in Opt(UserRoles), password \in Passwords :
           CustomUserManager_create_superuser(cls, role, password)
    \/ UserRequests

\* The users resource over users that create_superuser stored and users
\* that registered through the API.
SpecSuperuser == Init /\ [][NextSuperuser]_vars

NextExpandUsers ==
    \/ Deliver
    \/ \E cls \in WhenIdle(UserClasses) : ManagerCreateUser(cls, base_role(cls))
    \/ \E req \in WhenIdle(Requesters), pk \in UserIds, expand \in ExpandParams :
           UserViewSet_retrieve_expand(req, pk, expand)

\* Retrieves of a user under every expand parameter.
SpecExpandUsers == Init /\ [][NextExpandUsers]_vars

NextConcurrent ==
    \/ DeliverAnswered
    \/ \E cls \in WhenIdle(UserClasses) : ManagerCreateUser(cls, base_role(cls))
    \/ AuthenticatedSetup
    \/ \E rs \in WhenIdle([Workers -> [user : UserIds, data : ReviewPayloads]]) :
           ReviewViewSet_create_concurrent(rs)
    \/ \E rs \in WhenIdle([Workers -> [user : UserIds, data : FavoritePayloads]]) :
           FavoritesViewSet_create_concurrent(rs)
    \/ \E w \in Workers : ReviewViewSet_perform_create_of(w)
    \/ \E w \in Workers : FavoritesViewSet_perform_create_of(w)

\* Creates of reviews and favorites handled by several workers at once.
SpecConcurrent == Init /\ [][NextConcurrent]_vars

NextCascade ==
    \/ Deliver
    \/ \E cls \in WhenIdle(UserClasses) : ManagerCreateUser(cls, base_role(cls))
    \/ AuthenticatedSetup
    \/ UserDestroyRequests
    \/ \E req \in WhenIdle(Requesters), pk \in UserIds : UserViewSet_retrieve(req, pk)
    \/ \E req \in WhenIdle(Requesters), slug \in Slugs : BookViewSet_retrieve(req, slug)
    \/ \E req \in WhenIdle(Requesters), slug \in Slugs : BookViewSet_destroy(req, slug)
    \/ \E req \in WhenIdle(Requesters), pk \in ReviewIds : ReviewViewSet_retrieve(req, pk)
    \/ \E req \in WhenIdle(Requesters), pk \in ReviewIds : ReviewViewSet_destroy(req, pk)
    \/ \E req \in WhenIdle(Requesters), pk \in FavoriteIds : FavoritesViewSet_retrieve(req, pk)
    \/ \E req \in WhenIdle(Requesters), pk \in FavoriteIds : FavoritesViewSet_destroy(req, pk)

\* The creates, retrieves and deletes of all four resources.
SpecCascade == Init /\ [][NextCascade]_vars

\* ------------------------------------------------------------------- claims

BookWrites == {"books.update", "books.partial_update", "books.destroy"}
ReviewWrites == {"reviews.update", "reviews.partial_update", "reviews.destroy"}
FavoriteDetail == {"favorites.retrieve", "favorites.update", "favorites.partial_update",
                   "favorites.destroy"}
UserDetail == {"users.retrieve", "users.update", "users.partial_update", "users.destroy"}
Refused == {401, 403, 404}

\* C1: an update or delete of a book takes effect only when the requester is
\* an authenticated author and the author of that book; the same request (one
\* the book's author would have accepted) sent by another authenticated user
\* is answered 403 and leaves the book stored and unchanged.
C1_BookWriteOnlyByItsAuthor ==
    [][\A b \in DOMAIN books :
          ( /\ last'.op \in BookWrites
            /\ last'.target = books[b].slug
            /\ ~(last'.user \in DOMAIN users /\ is_author(last'.user)
                    /\ books[b].author = last'.user) )
          => ( /\ b \in DOMAIN books'
               /\ books'[b] = books[b]
               /\ ( /\ last'.user \in DOMAIN users
                    /\ \/ last'.op = "books.destroy"
                       \/ BookSerializer_is_valid(last'.data, {b},
                                                  last'.op = "books.partial_update") )
                  => last'.status = 403 )]_vars

\* C2: an update or delete of a review takes effect only when the requester
\* is an authenticated reviewer and the reviewer of that review; the same
\* request (one the review's reviewer would have accepted) sent by another
\* authenticated user is answered 403 and leaves the review stored and
\* unchanged.
C2_ReviewWriteOnlyByItsReviewer ==
    [][\A r \in DOMAIN reviews :
          ( /\ last'.op \in ReviewWrites
            /\ last'.target = r
            /\ ~(last'.user \in DOMAIN users /\ is_reviewer(last'.user)
                    /\ reviews[r].reviewer = last'.user) )
          => ( /\ r \in DOMAIN reviews'
               /\ reviews'[r] = reviews[r]
               /\ ( /\ last'.user \in DOMAIN users
                    /\ \/ last'.op = "reviews.destroy"
                       \/ ReviewSerializer_is_valid(last'.data, {r},
                                                    last'.op = "reviews.partial_update") )
                  => last'.status = 403 )]_vars

\* C3: a list of favorites returns only favorites whose user is the
\* requester, and a retrieve, update or delete aimed at a favorite of another
\* user is refused, returns nothing and leaves the favorites as they were.
C3_FavoritesOnlyOwn ==
    [][ /\ last'.op = "favorites.list" =>
             \A f \in last'.body : f \in DOMAIN favorites /\ favorites[f].user = last'.user
        /\ \A f \in DOMAIN favorites :
             ( /\ last'.op \in FavoriteDetail
               /\ last'.target = f
               /\ favorites[f].user # last'.user )
             => ( /\ last'.status \in Refused
                  /\ last'.body = {}
                  /\ favorites' = favorites ) ]_vars

\* C3 witness: a user asked to delete a stored favorite of another user and
\* got 404, and a list returned to a user who owns one of two favorites.
C3_Witness ==
    /\ last.op = "favorites.destroy"
    /\ last.status = 404
    /\ last.user \in DOMAIN users
    /\ last.target \in DOMAIN favorites
    /\ favorites[last.target].user # last.user
    /\ \E f \in DOMAIN favorites : favorites[f].user = last.user

\* C4: a retrieve, update or delete aimed at the record of another user is
\* refused (403 or 404 for an authenticated requester), returns nothing and
\* leaves every user stored with its fields unchanged.
C4_UserRecordOnlySelf ==
    [][\A u \in DOMAIN users :
          ( /\ last'.op \in UserDetail
            /\ last'.target = u
            /\ last'.user # u )
          => ( /\ last'.status \in Refused
               /\ (last'.user \in DOMAIN users => last'.status \in {403, 404})
               /\ last'.body = {}
               /\ users' = users )]_vars

\* C4 witness: a stored user asked to delete another stored user and got 403.
C4_Witness ==
    /\ last.op = "users.destroy"
    /\ last.status = 403
    /\ last.user \in DOMAIN users
    /\ last.target \in DOMAIN users
    /\ last.user # last.target

\* C5: no two stored reviews have the same (book, reviewer) pair.
C5_OneReviewPerBookAndReviewer ==
    \A r1, r2 \in DOMAIN reviews :
        (reviews[r1].book = reviews[r2].book /\ reviews[r1].reviewer = reviews[r2].reviewer)
        => r1 = r2

\* C5 witness: a reviewer who has a review of a book sent a create for that
\* book whose payload passed validation, and the insert was refused.
C5_Witness ==
    /\ last.op = "reviews.create"
    /\ last.status = 500
    /\ \E r \in DOMAIN reviews :
          reviews[r].reviewer = last.user /\ reviews[r].book \in last.data.book

\* C6: no two stored favorites have the same (user, book) pair, and the
\* user stored by a create is the requester, whoever the payload names.
C6_OneFavoritePerUserAndBook ==
    /\ \A f1, f2 \in DOMAIN favorites :
          (favorites[f1].user = favorites[f2].user /\ favorites[f1].book = favorites[f2].book)
          => f1 = f2
    /\ (last.op = "favorites.create" /\ last.status = 201) =>
          \A f \in last.body : f \in DOMAIN favorites /\ favorites[f].user = last.user

\* C6 witness: a requester who has a favorite of a book sent a create for that
\* book naming another user; the payload passed validation and the insert of
\* the row owned by the requester was refused.
C6_Witness ==
    /\ last.op = "favorites.create"
    /\ last.status = 500
    /\ last.data.user # {last.user}
    /\ \E f \in DOMAIN favorites :
          favorites[f].user = last.user /\ favorites[f].book \in last.data.book

\* C7: a create sent by a reviewer who already has a review of the payload's
\* book is answered 400, whatever reviewer the payload names or omits.  (The
\* stored reviews are those before the request: a refused create adds none.)
C7_DuplicateReviewIs400 ==
    ( /\ last.op = "reviews.create"
      /\ last.user \in DOMAIN users
      /\ is_reviewer(last.user)
      /\ \E r \in DOMAIN reviews \ last.body :
            reviews[r].reviewer = last.user /\ reviews[r].book \in last.data.book )
    => last.status = 400

\* C8: a user created through the user-creation endpoint with a role is
\* stored with exactly that role.
C8_RegisteredRoleIsStored ==
    (last.op = "users.create" /\ last.status = 201 /\ last.data.role # {})
    => users[last.target].role = Val(last.data.role)

\* C9: an update of a user through the API leaves every stored role as it
\* was, and an accepted one applies the supplied first_name.
C9_UpdateKeepsRole ==
    [][last'.op \in {"users.update", "users.partial_update"} =>
          /\ \A u \in DOMAIN users : u \in DOMAIN users' /\ users'[u].role = users[u].role
          /\ last'.status = 200 =>
                users'[last'.target].first_name
                    = Get(last'.data.first_name, users[last'.target].first_name) ]_vars

\* C9 witness: an accepted PATCH carried a role other than the stored one
\* together with a first_name, which is now the stored first_name.
C9_Witness ==
    /\ last.op = "users.partial_update"
    /\ last.status = 200
    /\ last.data.role # {}
    /\ last.data.role # {users[last.target].role}
    /\ last.data.first_name = {"ann"}
    /\ users[last.target].first_name = "ann"

\* C10: a book is created only for an authenticated author and a review only
\* for an authenticated reviewer; a create from an authenticated user of
\* another role is answered 403 and adds nothing.
C10_CreateNeedsRole ==
    [][ /\ (last'.op = "books.create" /\ last'.user \in DOMAIN users /\ ~is_author(last'.user))
             => (last'.status = 403 /\ books' = books)
        /\ (last'.op = "books.create" /\ last'.status = 201)
             => (last'.user \in DOMAIN users /\ is_author(last'.user))
        /\ (last'.op = "reviews.create" /\ last'.user \in DOMAIN users /\ ~is_reviewer(last'.user))
             => (last'.status = 403 /\ reviews' = reviews)
        /\ (last'.op = "reviews.create" /\ last'.status = 201)
             => (last'.user \in DOMAIN users /\ is_reviewer(last'.user)) ]_vars

\* C10 witness: a reviewer asked to create a book and got 403 while a book
\* written by an author is stored.
C10_Witness ==
    /\ last.op = "books.create"
    /\ last.status = 403
    /\ last.user \in DOMAIN users
    /\ is_reviewer(last.user)
    /\ books # <<>>

BookReads == {"books.list", "books.retrieve"}
ReviewReads == {"reviews.list", "reviews.retrieve"}

C12_CreateIgnoresOwnerField ==
    [][ /\ ( /\ last'.op = "books.create"
             /\ last'.user \in DOMAIN users
             /\ is_author(last'.user)
             /\ last'.data.slug # {}
             /\ \A b \in DOMAIN books : {books[b].slug} # last'.data.slug )
            => ( /\ last'.status = 201
                 /\ \A b \in last'.body : b \in DOMAIN books' /\ books'[b].author = last'.user )
        /\ ( /\ last'.op = "reviews.create"
             /\ last'.user \in DOMAIN users
             /\ is_reviewer(last'.user)
             /\ last'.data.book # {}
             /\ last'.data.book \subseteq DOMAIN books
             /\ last'.data.rating # {}
             /\ \A x \in last'.data.rating : MinRating <= x /\ x <= MaxRating
             /\ \A r \in DOMAIN reviews :
                    ~(reviews[r].reviewer = last'.user /\ {reviews[r].book} = last'.data.book) )
            => ( /\ last'.status = 201
                 /\ \A r \in last'.body :
                        r \in DOMAIN reviews' /\ reviews'[r].reviewer = last'.user ) ]_vars

ReviewSaves == {"reviews.create", "reviews.update", "reviews.partial_update"}

\* C13: every stored review has a rating from 1 to 5; a create or an update
\* that carries a rating outside 1..5, sent by a reviewer (for an update: to a
\* stored review), is answered 400 and leaves the reviews as they were; a
\* PATCH by a reviewer that carries nothing but a rating in 1..5 is answered
\* 200 and stores that rating, and a create by a reviewer that is accepted
\* stores the rating it carries.
C13_RatingFromOneToFive ==
    [][ /\ \A r \in DOMAIN reviews' : 1 <= reviews'[r].rating /\ reviews'[r].rating <= 5
        /\ ( /\ last'.op \in ReviewSaves
             /\ last'.user \in DOMAIN users
             /\ is_reviewer(last'.user)
             /\ (last'.op = "reviews.create" \/ last'.target \in DOMAIN reviews)
             /\ \E x \in last'.data.rating : x < 1 \/ x > 5 )
            => (last'.status = 400 /\ reviews' = reviews)
        /\ ( /\ last'.op = "reviews.partial_update"
             /\ last'.user \in DOMAIN users
             /\ is_reviewer(last'.user)
             /\ last'.target \in DOMAIN reviews
             /\ last'.data.book = {}
             /\ last'.data.reviewer = {}
             /\ \E x \in last'.data.rating : 1 <= x /\ x <= 5 )
            => ( /\ last'.status = 200
                 /\ {reviews'[last'.target].rating} = last'.data.rating )
        /\ (last'.op = "reviews.create" /\ last'.status = 201)
            => \A r \in last'.body : {reviews'[r].rating} = last'.data.rating ]_vars

\* C13 witness: a reviewer sent a PATCH carrying nothing but a rating just
\* above the range to a stored review and got 400; the review keeps a rating
\* in range.
C13_Witness ==
    /\ last.op = "reviews.partial_update"
    /\ last.status = 400
    /\ last.user \in DOMAIN users
    /\ is_reviewer(last.user)
    /\ last.target \in DOMAIN reviews
    /\ last.data = [book |-> {}, reviewer |-> {}, rating |-> {MaxRating + 1}]
    /\ reviews[last.target].rating = MaxRating

C15_UsersCreateOpenRestIsOwner ==
    [][ /\ (last'.op = "users.create" /\ (last'.user = 0 \/ last'.user \in DOMAIN users))
            => /\ last'.status \in {201, 400}
               /\ last'.status = 201 <=>
                      ( /\ last'.data.role \subseteq {UserRole_AUTHOR, UserRole_REVIEWER}
                        /\ last'.data.password # {} )
               /\ last'.status = 201 => DOMAIN users' = DOMAIN users \cup {last'.target}
        /\ (last'.op \in UserDetail \cup {"users.list", "users.me"} /\ last'.user \notin DOMAIN users)
            => last'.status = 401
        /\ (last'.op = "users.list" /\ last'.user \in DOMAIN users)
            => (last'.status = 200 /\ last'.body = DOMAIN users)
        /\ (last'.op = "users.me" /\ last'.user \in DOMAIN users)
            => last'.status \in {200, 405}
        /\ (last'.op \in UserDetail /\ last'.user \in DOMAIN users)
            => IF last'.target \notin DOMAIN users THEN last'.status = 404
               ELSE IF last'.target # last'.user THEN last'.status = 403
               ELSE last'.status \in {200, 204, 400} ]_vars

\* C15 witness: a caller without credentials created a user, and the table
\* already held a user.
C15_Witness ==
    /\ last.op = "users.create"
    /\ last.user = 0
    /\ last.status = 201
    /\ last.target \in DOMAIN users
    /\ DOMAIN users # {last.target}

\* C16: /users/me/ gives 401 to a caller who is not authenticated; to an
\* authenticated caller it gives 405 for POST, PUT, PATCH and DELETE, and for
\* GET it returns 200 with the caller's own record, which is what a retrieve
\* of the caller's own id returns in the same state; it changes nothing.
C16_MeIsRetrieveOfSelf ==
    [][ /\ last'.op = "users.me" => UNCHANGED <<users, books, reviews, favorites>>
        /\ (last'.op = "users.me" /\ last'.user \notin DOMAIN users)
            => (last'.status = 401 /\ last'.body = {})
        /\ (last'.op = "users.me" /\ last'.user \in DOMAIN users)
            => IF last'.target \in {"POST", "PUT", "PATCH", "DELETE"}
               THEN last'.status = 405 /\ last'.body = {}
               ELSE last'.status = 200 /\ last'.body = {last'.user}
        /\ ( /\ last'.op = "users.retrieve"
             /\ last'.user \in DOMAIN users
             /\ last'.target = last'.user )
            => (last'.status = 200 /\ last'.body = {last'.user}) ]_vars

\* C16 witness: with two users stored, the second one asked for /users/me/
\* with GET and got its own record.
C16_Witness ==
    /\ last.op = "users.me"
    /\ last.target = "GET"
    /\ last.status = 200
    /\ last.body = {last.user}
    /\ \E u \in DOMAIN users : u < last.user

\* The names an expand parameter holds, at any level of any of its items.
NamedBy(expand) == UNION {{expand[i][j] : j \in DOMAIN expand[i]} : i \in DOMAIN expand}

\* The relations of a whitelist an expand parameter asks for: those it names,
\* all of them when it holds the wildcard.
Requested(whitelist, expand) ==
    IF "~all" \in NamedBy(expand) THEN whitelist ELSE whitelist \cap NamedBy(expand)

\* C17: for each resource the relations joined or prefetched for a request
\* are exactly the relations of that resource's whitelist (users: books,
\* reviews, favorites; books: author, reviews; reviews: book, reviewer;
\* favorites: book, user) that the expand parameter names (every one of them
\* for the wildcard ~all): a relation it does not name is not loaded, and a
\* name outside the whitelist loads nothing.
C17_LoadedIsRequestedWhitelist ==
    /\ UserViewSet_permitted_expands = {"books", "reviews", "favorites"}
    /\ BookViewSet_permitted_expands = {"author", "reviews"}
    /\ ReviewViewSet_permitted_expands = {"book", "reviewer"}
    /\ FavoritesViewSet_permitted_expands = {"book", "user"}
    /\ last.op = "users.get_queryset"
          => last.body = Requested({"books", "reviews", "favorites"}, last.data)
    /\ last.op = "books.get_queryset"
          => last.body = Requested({"author", "reviews"}, last.data)
    /\ last.op = "reviews.get_queryset"
          => last.body = Requested({"book", "reviewer"}, last.data)
    /\ last.op = "favorites.get_queryset"
          => last.body = Requested({"book", "user"}, last.data)

\* C17 witness: a request to books with expand=reviews,title.book loaded the
\* reviews and nothing else.
C17_Witness ==
    /\ last.op = "books.get_queryset"
    /\ last.data = << <<"reviews">>, <<"title", "book">> >>
    /\ last.body = {"reviews"}

\* C18: an authenticated user of any role who sends a create for a stored
\* book they have no favorite of, with a payload that names a stored user
\* (themselves or another without a favorite of that book) and a reason that
\* is absent or a valid choice, is answered 201, and the new favorite is
\* stored with that book and with the requester as its user.
C18_AnyUserCreatesFavorite ==
    [][ \A u \in DOMAIN users, v \in DOMAIN users, b \in DOMAIN books :
          ( /\ last'.op = "favorites.create"
            /\ last'.user = u
            /\ last'.data.user = {v}
            /\ last'.data.book = {b}
            /\ last'.data.reason \subseteq ReasonOther..ReasonCollection
            /\ \A f \in DOMAIN favorites :
                  favorites[f].book = b => favorites[f].user \notin {u, v} )
          => ( /\ last'.status = 201
               /\ \E f \in DOMAIN favorites' \ DOMAIN favorites :
                     /\ last'.body = {f}
                     /\ favorites'[f].user = u
                     /\ favorites'[f].book = b ) ]_vars

\* C18 witness: a user whose role is neither author nor reviewer created a
\* favorite with a payload naming another user, and owns it.
C18_Witness ==
    /\ last.op = "favorites.create"
    /\ last.status = 201
    /\ last.user \in DOMAIN users
    /\ users[last.user].role = UserRole_OTHER
    /\ last.data.user # {last.user}
    /\ \E f \in last.body : f \in DOMAIN favorites /\ favorites[f].user = last.user

\* C19: a PATCH sent by the owner of a book, a review or a favorite that
\* carries the owner field naming another stored user, and otherwise nothing
\* or a valid value of another field, is answered 200, applies the other
\* field and leaves the owner of the row as it was.  (created_at is set by
\* the database when the row is inserted and is no field of the rows here.)
C19_UpdateKeepsOwner ==
    [][ /\ \A b \in DOMAIN books :
              ( /\ last'.op = "books.partial_update"
                /\ last'.target = books[b].slug
                /\ last'.user = books[b].author
                /\ last'.user \in DOMAIN users
                /\ is_author(last'.user)
                /\ last'.data.author # {}
                /\ last'.data.author \subseteq DOMAIN users \ {last'.user}
                /\ last'.data.slug = {} )
              => ( /\ last'.status = 200
                   /\ books'[b].author = books[b].author )
        /\ \A r \in DOMAIN reviews :
              ( /\ last'.op = "reviews.partial_update"
                /\ last'.target = r
                /\ last'.user = reviews[r].reviewer
                /\ last'.user \in DOMAIN users
                /\ is_reviewer(last'.user)
                /\ last'.data.reviewer # {}
                /\ last'.data.reviewer \subseteq DOMAIN users \ {last'.user}
                /\ last'.data.book = {}
                /\ last'.data.rating \subseteq MinRating..MaxRating )
              => ( /\ last'.status = 200
                   /\ reviews'[r].reviewer = reviews[r].reviewer
                   /\ reviews'[r].rating = Get(last'.data.rating, reviews[r].rating) )
        /\ \A f \in DOMAIN favorites :
              ( /\ last'.op = "favorites.partial_update"
                /\ last'.target = f
                /\ last'.user = favorites[f].user
                /\ last'.user \in DOMAIN users
                /\ last'.data.user # {}
                /\ last'.data.user \subseteq DOMAIN users \ {last'.user}
                /\ last'.data.book = {}
                /\ last'.data.reason \subseteq ReasonOther..ReasonCollection )
              => ( /\ last'.status = 200
                   /\ favorites'[f].user = favorites[f].user
                   /\ favorites'[f].reason = Get(last'.data.reason, favorites[f].reason) ) ]_vars

\* C20: when users are changed through the API alone, the author of every
\* stored book is a stored user whose role is author, and the reviewer of
\* every stored review is a stored user whose role is reviewer.
C20_OwnersHaveTheirRole ==
    /\ \A b \in DOMAIN books :
          /\ books[b].author \in DOMAIN users
          /\ users[books[b].author].role = UserRole_AUTHOR
    /\ \A r \in DOMAIN reviews :
          /\ reviews[r].reviewer \in DOMAIN users
          /\ users[reviews[r].reviewer].role = UserRole_REVIEWER

\* C20 witness: an accepted PATCH moved a book to the author its payload
\* names, who is not the requester.
C20_Witness ==
    /\ last.op = "books.partial_update"
    /\ last.status = 200
    /\ last.data.author # {}
    /\ last.data.author # {last.user}
    /\ \E b \in last.body : b \in DOMAIN books /\ {books[b].author} = last.data.author

BookSaves == {"books.create", "books.update", "books.partial_update"}
BookDetail == {"books.retrieve", "books.update", "books.partial_update", "books.destroy"}

\* C21: no two stored books have the same slug, so a slug resolves to at most
\* one book; a create or update that would give a book the slug of another
\* stored book is rejected (400 when the request got as far as validation) and
\* leaves the books as they were; and a lookup of a slug no book has, by a
\* requester the view lets through, gives 404.
C21_SlugNamesOneBook ==
    [][ /\ \A b1, b2 \in DOMAIN books' : books'[b1].slug = books'[b2].slug => b1 = b2
        /\ \A b \in DOMAIN books :
             ( /\ last'.op \in BookSaves
               /\ last'.data.slug = {books[b].slug}
               /\ (last'.op = "books.create" \/ last'.target # books[b].slug) )
             => ( /\ last'.status \in {400, 401, 403, 404}
                  /\ books' = books
                  /\ ( /\ last'.user \in DOMAIN users
                       /\ is_author(last'.user)
                       /\ \/ last'.op = "books.create"
                          \/ BookViewSet_get_object(last'.target) # {} )
                     => last'.status = 400 )
        /\ ( /\ last'.op \in BookDetail
             /\ BookViewSet_get_object(last'.target) = {}
             /\ last'.user \in DOMAIN users
             /\ (last'.op = "books.retrieve" \/ is_author(last'.user)) )
           => ( /\ last'.status = 404
                /\ last'.body = {}
                /\ books' = books ) ]_vars

\* C21 witness: two books are stored and an author's update that names the
\* slug of the other book, with nothing else wrong in it, was answered 400.
C21_Witness ==
    /\ last.op \in {"books.update", "books.partial_update"}
    /\ last.status = 400
    /\ Cardinality(DOMAIN books) = 2
    /\ last.user \in DOMAIN users
    /\ is_author(last.user)
    /\ last.data.author \subseteq AuthorUserManager_get_queryset
    /\ (last.op = "books.update" => last.data.author # {})
    /\ \E b1, b2 \in DOMAIN books :
          /\ b1 # b2
          /\ books[b1].slug = last.target
          /\ last.data.slug = {books[b2].slug}

\* C22: a list of the users resource answered to an authenticated user holds
\* the record of the requester and of no other user.
C22_ListShowsOnlySelf ==
    (last.op = "users.list" /\ last.status = 200) => last.body \subseteq {last.user}

\* The owning field of a stored object: the object itself for a User, author
\* for a Book, reviewer for a Review, user for a Favorite; none otherwise.
OwningField(kind, pk) ==
    IF kind = "User" THEN {pk}
    ELSE IF kind = "Book" THEN {books[pk].author}
    ELSE IF kind = "Review" THEN {reviews[pk].reviewer}
    ELSE IF kind = "Favorites" THEN {favorites[pk].user}
    ELSE {}

\* C23: IsOwner.has_object_permission returns true exactly when the requester
\* is the owning field of the object, and false for an object of a class
\* other than User, Book, Review and Favorites.
C23_OwnerCheckIsOwningField ==
    last.op = "IsOwner.has_object_permission" =>
        /\ last.body = {last.user \in OwningField(last.target[1], last.target[2])}
        /\ (last.target[1] \notin {"User", "Book", "Review", "Favorites"} => last.body = {FALSE})

\* C23 witness: the check was asked about a stored review on behalf of its
\* reviewer while another user is stored, and returned true.
C23_Witness ==
    /\ last.op = "IsOwner.has_object_permission"
    /\ last.target[1] = "Review"
    /\ reviews[last.target[2]].reviewer = last.user
    /\ last.body = {TRUE}
    /\ Cardinality(DOMAIN users) = 2

BookOps == BookReads \cup BookSaves \cup {"books.destroy"}
ReviewOps == ReviewReads \cup ReviewSaves \cup {"reviews.destroy"}
ReviewDetail == {"reviews.retrieve", "reviews.update", "reviews.partial_update", "reviews.destroy"}

\* The status the first failing check gives a request to books or reviews,
\* 0 when none of the five fails: authentication (401), the role the view
\* asks for (403), the lookup of the target (404), the permission on the
\* object (403), the validation of the body (400).
FirstFailure(l) ==
    LET book == l.op \in BookOps
        read == l.op \in BookReads \cup ReviewReads
        target == IF ~(l.op \in BookDetail \cup ReviewDetail) THEN {0}
                  ELSE IF book THEN BookViewSet_get_object(l.target)
                  ELSE {l.target} \cap DOMAIN reviews
        partial == l.op \in {"books.partial_update", "reviews.partial_update"}
        self == IF l.op \in {"books.create", "reviews.create"} THEN {} ELSE target
    IN  IF l.user \notin DOMAIN users THEN 401
        ELSE IF ~read /\ ~(IF book THEN is_author(l.user) ELSE is_reviewer(l.user)) THEN 403
        ELSE IF target = {} THEN 404
        ELSE IF l.op \in BookSaves /\ ~BookSerializer_is_valid(l.data, self, partial) THEN 400
        ELSE IF l.op \in ReviewSaves /\ ~ReviewSerializer_is_valid(l.data, self, partial) THEN 400
        ELSE 0

\* C24: a request to books or reviews is answered with the status of the
\* first check that fails, in the order authentication, view permission,
\* lookup, object permission, validation; so a request the requester's role
\* forbids is answered 403 whatever its body and target, and a response of
\* 400, 401, 403 or 404 leaves every table as it was.
C24_FirstFailingCheckDecides ==
    [][ last'.op \in BookOps \cup ReviewOps =>
          /\ FirstFailure(last') # 0 => last'.status = FirstFailure(last')
          /\ ( /\ last'.user \in DOMAIN users
               /\ \/ last'.op \in BookSaves \cup {"books.destroy"} /\ ~is_author(last'.user)
                  \/ last'.op \in ReviewSaves \cup {"reviews.destroy"} /\ ~is_reviewer(last'.user) )
             => last'.status = 403
          /\ last'.status \in {400, 401, 403, 404} =>
                 /\ users' = users
                 /\ books' = books
                 /\ reviews' = reviews
                 /\ favorites' = favorites
                 /\ next_pk' = next_pk ]_vars

\* C24 witness: a stored user who is no author sent a PUT to a slug no book
\* has, with a body that lacks the slug, while a book is stored: 403.
C24_Witness ==
    /\ last.op = "books.update"
    /\ last.status = 403
    /\ last.user \in DOMAIN users
    /\ ~is_author(last.user)
    /\ books # <<>>
    /\ BookViewSet_get_object(last.target) = {}
    /\ last.data.slug = {}

\* C25: create_superuser with a role other than admin raises ValueError and
\* stores no user; without a role, or with the admin role, it stores a user
\* whose is_staff, is_superuser and is_active are true and whose role is
\* admin.
C25_SuperuserIsAdmin ==
    [][ last'.op = "create_superuser" =>
          IF last'.data \subseteq {UserRole_ADMIN}
          THEN \E u \in DOMAIN users' \ DOMAIN users :
                   /\ last'.body = {u}
                   /\ users'[u].is_staff
                   /\ users'[u].is_superuser
                   /\ users'[u].is_active
                   /\ users'[u].role = UserRole_ADMIN
          ELSE last'.body = {} /\ users' = users ]_vars

\* C26: a retrieve of a user the requester may read that asks for the
\* expansion of a relation on the users whitelist is answered 200 with the
\* user, and never with a server error.
C26_WhitelistedExpansionSucceeds ==
    ( /\ last.op = "users.retrieve_expand"
      /\ last.user = last.target
      /\ last.user \in DOMAIN users
      /\ \E i \in DOMAIN last.data : \E f \in UserViewSet_permitted_expands : last.data[i] = <<f>> )
    => (last.status = 200 /\ last.body = {last.target})

UserSaves == {"users.create", "users.update", "users.partial_update"}
UserOps == UserSaves \cup {"users.list", "users.me", "users.retrieve", "users.destroy"}

\* C27: a request to the users resource sent by a caller who is not an admin
\* (not staff, not superuser, role not admin) leaves no user with role admin,
\* is_staff or is_superuser who did not have it before; a registration that
\* names a role other than author and reviewer is answered 400 (401 when it
\* carries a token that names no stored user) and stores nothing.
C27_NoPrivilegeThroughApi ==
    [][ ( /\ last'.op \in UserOps
          /\ \/ last'.user \notin DOMAIN users
             \/ /\ users[last'.user].role # UserRole_ADMIN
                /\ ~users[last'.user].is_staff
                /\ ~users[last'.user].is_superuser )
        => ( /\ \A u \in DOMAIN users' :
                  /\ users'[u].role = UserRole_ADMIN =>
                         (u \in DOMAIN users /\ users[u].role = UserRole_ADMIN)
                  /\ users'[u].is_staff => (u \in DOMAIN users /\ users[u].is_staff)
                  /\ users'[u].is_superuser => (u \in DOMAIN users /\ users[u].is_superuser)
             /\ ( /\ last'.op = "users.create"
                  /\ ~(last'.data.role \subseteq RESTRICTED_ROLE_CHOICES) )
                => (last'.status \in {400, 401} /\ users' = users) ) ]_vars

\* C27 witness: a stored user who is neither staff nor superuser sent a PATCH
\* of its own record that names is_staff and is_superuser; it was accepted and
\* the user is still neither.
C27_Witness ==
    /\ last.op = "users.partial_update"
    /\ last.status = 200
    /\ last.user = last.target
    /\ last.data.is_staff = {TRUE}
    /\ last.data.is_superuser = {TRUE}
    /\ ~users[last.target].is_staff
    /\ ~users[last.target].is_superuser

\* C28: after an accepted create or update of a user that supplies a
\* password, the stored password is not the supplied text but a hash that
\* verifies against it.
C28_StoredPasswordIsHash ==
    [][ ( /\ last'.op \in UserSaves
          /\ last'.status \in {200, 201}
          /\ last'.data.password # {} )
        => ( /\ users'[last'.target].password \notin last'.data.password
             /\ \A raw \in last'.data.password :
                    check_password(raw, users'[last'.target].password) ) ]_vars

\* The (owner, book) pair the row of worker w would have.
PairOf(w) == <<last.data[w].user, last.data[w].data.book>>

\* C29: when several creates of the same (book, reviewer) review, or of the
\* same (user, book) favorite, have all passed validation before any of them
\* inserted, then once all have answered at most one of them stored an
\* object, no two stored rows share a pair, and every other one was answered
\* 400.
C29_ConcurrentDuplicateIs400 ==
    (last.op \in ConcurrentOps /\ AllAnswered) =>
        /\ \A r1, r2 \in DOMAIN reviews :
              (reviews[r1].book = reviews[r2].book /\ reviews[r1].reviewer = reviews[r2].reviewer)
                  => r1 = r2
        /\ \A f1, f2 \in DOMAIN favorites :
              (favorites[f1].user = favorites[f2].user /\ favorites[f1].book = favorites[f2].book)
                  => f1 = f2
        /\ \A w1, w2 \in Workers :
              (w1 # w2 /\ PairOf(w1) = PairOf(w2)) =>
                  /\ ~(last.data[w1].status = 201 /\ last.data[w2].status = 201)
                  /\ last.data[w1].status \in {201, 400}
                  /\ last.data[w2].status \in {201, 400}

Retrieves == {"users.retrieve", "books.retrieve", "reviews.retrieve", "favorites.retrieve"}

\* The stored objects a retrieve's target names.
Stored(l) ==
    IF l.op = "users.retrieve" THEN {l.target} \cap DOMAIN users
    ELSE IF l.op = "books.retrieve" THEN BookViewSet_get_object(l.target)
    ELSE IF l.op = "reviews.retrieve" THEN {l.target} \cap DOMAIN reviews
    ELSE {l.target} \cap DOMAIN favorites

\* C30: every stored book names a stored user as author, every review a
\* stored book and a stored reviewer, every favorite a stored user and a
\* stored book; a delete of a user answered 204 removes the user with their
\* books, reviews and favorites, and a delete of a book its reviews and
\* favorites (all through the rows that name a removed book); and a retrieve
\* of an object that is not stored is answered not found (401 when the
\* requester itself is no longer stored).
C30_ReferencesAreStored ==
    [][ /\ \A b \in DOMAIN books' : books'[b].author \in DOMAIN users'
        /\ \A r \in DOMAIN reviews' :
              reviews'[r].book \in DOMAIN books' /\ reviews'[r].reviewer \in DOMAIN users'
        /\ \A f \in DOMAIN favorites' :
              favorites'[f].book \in DOMAIN books' /\ favorites'[f].user \in DOMAIN users'
        /\ (last'.op = "users.destroy" /\ last'.status = 204) =>
              /\ last'.target \in DOMAIN users
              /\ last'.target \notin DOMAIN users'
              /\ \A b \in DOMAIN books : books[b].author = last'.target => b \notin DOMAIN books'
              /\ \A r \in DOMAIN reviews : reviews[r].reviewer = last'.target => r \notin DOMAIN reviews'
              /\ \A f \in DOMAIN favorites : favorites[f].user = last'.target => f \notin DOMAIN favorites'
        /\ (last'.op = "books.destroy" /\ last'.status = 204) =>
              \A b \in BookViewSet_get_object(last'.target) :
                  /\ b \notin DOMAIN books'
                  /\ \A r \in DOMAIN reviews : reviews[r].book = b => r \notin DOMAIN reviews'
                  /\ \A f \in DOMAIN favorites : favorites[f].book = b => f \notin DOMAIN favorites'
        /\ (last'.op \in Retrieves /\ Stored(last') = {}) =>
              /\ last'.body = {}
              /\ last'.status = IF last'.user \in DOMAIN users THEN 404 ELSE 401 ]_vars

\* C30 witness: an author deleted itself (204); a book, a review and a
\* favorite had been created and none is stored any more, while the other
\* user still is.
C30_Witness ==
    /\ last.op = "users.destroy"
    /\ last.status = 204
    /\ next_pk["book"] > 1
    /\ next_pk["review"] > 1
    /\ next_pk["favorite"] > 1
    /\ books = <<>>
    /\ reviews = <<>>
    /\ favorites = <<>>
    /\ DOMAIN users # {}

====
